---- MODULE Spec2Model ----
(***************************************************************************)
(* A model of terminal-chat: the outbound Connection Manager (ChatClient), *)
(* the multicast Discovery service and the pieces of the router (P2PChat)  *)
(* that drive them.                                                        *)
(*                                                                         *)
(* The repository holds two revisions of ChatClient: src/client.ts, and    *)
(* the class that follows ChatServer in src/server.ts (lines 217-385),     *)
(* which adds the reconnectAttempts map.  The variable rev says which one  *)
(* is loaded; every operator that differs between the two has one          *)
(* definition per revision.                                                *)
(***************************************************************************)
EXTENDS Integers, Sequences, FiniteSets, Bags, TLC

\* ------------------------------------------------------------------ bounds
\* The Connection Manager is explored twice.  SpecCM follows every peer:
\* connect() calls the router may make in one run (one per peer-found event),
\* and reconnect timers the Connection Manager may schedule in one run.
MaxConnectCalls == 2
MaxTimers == 3
\* SpecBackoff follows one peer through the whole backoff.
DeepConnectCalls == 2
DeepTimers == 5
\* SpecRouter: the reconnect timers and the inbound sessions of one run.
RouterTimers == 1
RouterInbound == 1
\* SpecServer: the inbound sessions open at a time, and the frames received.
MaxInbound == 2
MaxFrames == 2

\* ------------------------------------------------------- program constants
maxReconnectAttempts == 5
reconnectDelay == 2000

\* The peer ids known to this process, and the absent map entry
\* (Map.get(k) === undefined); socket and timer handles are >= 1.
Peers == {1, 2}
NoEntry == 0
Revs == {"client", "server"}

RECURSIVE Pow2(_)
\* Math.pow(2, n) for the small naturals the backoff uses.
Pow2(n) == IF n = 0 THEN 1 ELSE 2 * Pow2(n - 1)

VARIABLES
    limits,             \* what this run explores: [peers, calls, timers, inbound]
    rev,                \* which ChatClient revision is loaded
    urlOk,              \* urlOk[p]: new WebSocket(url) accepts the peer's url
    connections,        \* ChatClient.connections: peer id -> socket handle
    sockets,            \* live sockets: handle -> [peer, readyState, closeCalled]
    reconnectTimers,    \* ChatClient.reconnectTimers: peer id -> timer handle
    reconnectAttempts,  \* ChatClient.reconnectAttempts (server.ts revision)
    timers,             \* pending setTimeout timers: handle -> [peer, attempt]
    emitted,            \* the events the last handler emitted, in order
    everConnected,      \* peer-connected was emitted for p
    delays,             \* delays[p]: the delays of the timers scheduled for p
    connectCalls,       \* connect() calls made for p
    disconnected,       \* since the last connect(p): "no" disconnect ran, one was
                        \* "called", or the close event of the socket it closed
                        \* was "delivered"
    capReached          \* the attempt cap was hit for p since the last connect(p)

cmVars == <<limits, rev, urlOk, connections, sockets, reconnectTimers,
            reconnectAttempts, timers, emitted, everConnected, delays,
            connectCalls, disconnected, capReached>>

\* The last sendTo/broadcast call and what it did.
VARIABLES
    lastCall,           \* [op, message, peers, failing] of the last send call
    sent,               \* <<socket, payload>> for each ws.send that went through
    logged,             \* the console lines of the call, in order
    raised,             \* an exception left the call
    returned            \* what the call returned, when it returns a value

sendVars == <<lastCall, sent, logged, raised, returned>>

\* The Discovery services of the processes on the multicast segment.
VARIABLES
    now,                \* Date.now(), in ms since the first process started
    running,            \* running[i]: process i has bound its discovery socket
    registry,           \* Discovery.peers of process i: id -> Peer
    nextAnnounce,       \* when the announce interval of process i fires next
    nextCleanup,        \* when the cleanup interval of process i fires next
    replyTimers,        \* pending jittered reply timers of process i
    net,                \* the datagrams in flight: a bag of [to, data]
    found,              \* found[i][id]: peer-found events i emitted for id
    lost,               \* lost[i][id]: peer-lost events i emitted for id
    ownHeard,           \* the kinds of its own looped-back datagrams i handled
    foreign,            \* datagrams sent by hosts that are not modelled
    stopped,            \* stopped[i]: Discovery.stop() of process i has run
    sendErrors          \* announce() calls of i that found the socket closed

discVars == <<now, running, registry, nextAnnounce, nextCleanup, replyTimers,
              net, found, lost, ownHeard, foreign, stopped, sendErrors>>

\* The router (P2PChat) of the process whose ChatClient is modelled.
VARIABLES
    chatPeers,          \* P2PChat.peers, in insertion order: a sequence of Peer
    heard,              \* [outbound, inbound]: the well-formed messages received
                        \* on outbound and on inbound sessions, in order
    dispatched,         \* the messages handleIncomingMessage was called with
    uiCalls,            \* what the last command showed in the UI
    exited,             \* process.exit() has run
    atExit              \* what the process held when shutdown was called

routerVars == <<chatPeers, heard, dispatched, uiCalls, exited, atExit>>

\* The Inbound Listener (ChatServer) of the same process.
VARIABLES
    inbound,            \* accepted sessions: handle -> [peerId, readyState, out]
    serverConnections,  \* ChatServer.connections: handshake id -> handle
    listener,           \* [port, server, attempts, result] of ChatServer.start
    occupied,           \* the ports other programs of the host listen on
    received,           \* [session, frame] of every frame handleMessage was
                        \* called with, in order
    port                \* Discovery.port: the port the process advertises

serverVars == <<inbound, serverConnections, listener, occupied, received, port>>

vars == <<cmVars, sendVars, discVars, routerVars, serverVars>>

\* What the Connection Manager's own steps leave alone.
nonCM == <<sendVars, discVars, routerVars, serverVars>>

\* What the steps of the Discovery services leave alone.
nonDisc == <<cmVars, sendVars, routerVars, serverVars>>

\* ------------------------------------------------ Connection Manager state
\* The fields the handlers read and write, as one record, so that a handler
\* that calls another (onclose -> scheduleReconnect) composes.
\* A handler starts with nothing emitted.
CM == [connections |-> connections, sockets |-> sockets,
       reconnectTimers |-> reconnectTimers,
       reconnectAttempts |-> reconnectAttempts,
       timers |-> timers, emitted |-> <<>>, everConnected |-> everConnected,
       delays |-> delays, capReached |-> capReached]

Commit(st) ==
    /\ connections' = st.connections
    /\ sockets' = st.sockets
    /\ reconnectTimers' = st.reconnectTimers
    /\ reconnectAttempts' = st.reconnectAttempts
    /\ timers' = st.timers
    /\ emitted' = st.emitted
    /\ everConnected' = st.everConnected
    /\ delays' = st.delays
    /\ capReached' = st.capReached

\* Handles: the k-th handle of peer p is 10 * p + k; a new socket or timer
\* takes the smallest handle of its peer that nothing refers to.
\* Each connect() call starts one chain socket -> timer -> socket -> ..., so a
\* peer has at most MaxConnectCalls live sockets, and as many pending timers
\* beside the one fired timer whose handle reconnectTimers still holds.
MaxLive == (IF MaxConnectCalls > DeepConnectCalls THEN MaxConnectCalls
                                               ELSE DeepConnectCalls) + 1
Handles(p) == {10 * p + k : k \in 1..MaxLive}
AllHandles == UNION {Handles(p) : p \in Peers}
Min(S) == CHOOSE x \in S : \A y \in S : x <= y

FreeSockets(st, p) == Handles(p) \ DOMAIN st.sockets
FreeTimers(st, p) == Handles(p) \ (DOMAIN st.timers \cup {st.reconnectTimers[p]})

RECURSIVE Sum(_, _)
\* The sum of f over the set S of its arguments.
Sum(f, S) == IF S = {} THEN 0
             ELSE LET x == CHOOSE y \in S : TRUE IN f[x] + Sum(f, S \ {x})

TimersScheduled(st) == Sum([p \in Peers |-> Len(st.delays[p])], Peers)
WithinBounds(st) == TimersScheduled(st) <= limits.timers

\* f with key k removed / added (functions whose domain is the live handles).
Remove(f, k) == [x \in DOMAIN f \ {k} |-> f[x]]
Put(f, k, v) == [x \in DOMAIN f \cup {k} |-> IF x = k THEN v ELSE f[x]]

\* setTimeout(cb, delay) for peer p; the closure keeps `attempt`.
\* reconnectTimers.set(peer.id, timer) overwrites the handle stored before.
SetTimer(st, p, attempt, delay) ==
    LET id == Min(FreeTimers(st, p)) IN
    [st EXCEPT !.timers = Put(@, id, [peer |-> p, attempt |-> attempt]),
               !.reconnectTimers[p] = id,
               !.delays[p] = Append(@, delay)]

\* client.ts: scheduleReconnect(peer, attempt = 0).
scheduleReconnect_client(st, p, attempt) ==
    IF attempt >= maxReconnectAttempts
    THEN [st EXCEPT !.capReached[p] = TRUE]
    ELSE SetTimer(st, p, attempt, reconnectDelay * Pow2(attempt))

\* server.ts revision: scheduleReconnect(peer) reads and bumps reconnectAttempts.
scheduleReconnect_server(st, p) ==
    LET currentAttempt == st.reconnectAttempts[p] IN   \* absent || 0 is 0
    IF currentAttempt >= maxReconnectAttempts
    THEN [st EXCEPT !.reconnectAttempts[p] = NoEntry,
                    !.capReached[p] = TRUE]
    ELSE SetTimer([st EXCEPT !.reconnectAttempts[p] = currentAttempt + 1],
                  p, currentAttempt, reconnectDelay * Pow2(currentAttempt))

\* scheduleReconnect(peer) as onclose and the catch block call it.
scheduleReconnect(st, p) ==
    IF rev = "client" THEN scheduleReconnect_client(st, p, 0)
                      ELSE scheduleReconnect_server(st, p)

\* new WebSocket(url): a socket in readyState CONNECTING with the handlers set.
NewSocket(st, p) ==
    LET id == Min(FreeSockets(st, p)) IN
    [st EXCEPT !.sockets = Put(@, id, [peer |-> p, readyState |-> "CONNECTING",
                                       closeCalled |-> FALSE])]

\* connectToPeer without its first three lines (the connections.has guard).
connectToPeer_noGuard(st, p) ==
    IF urlOk[p] THEN NewSocket(st, p) ELSE scheduleReconnect(st, p)

\* connectToPeer(peer): returns at once when a session is registered; the
\* constructor throws on a url it cannot parse and the catch block schedules
\* a reconnect.  The promise never rejects.
connectToPeer(st, p) ==
    IF st.connections[p] # NoEntry THEN st
    ELSE IF urlOk[p] THEN NewSocket(st, p)
    ELSE scheduleReconnect(st, p)

\* clearTimeout + reconnectTimers.delete for the handle stored under p, if any.
ClearTimer(st, p) ==
    LET t == st.reconnectTimers[p] IN
    IF t = NoEntry THEN st
    ELSE [st EXCEPT !.timers = Remove(@, t), !.reconnectTimers[p] = NoEntry]

\* reconnectAttempts.delete(id): only the server.ts revision has the map.
DeleteAttempts(st, p) ==
    IF rev = "server" THEN [st EXCEPT !.reconnectAttempts[p] = NoEntry] ELSE st

\* onopen that registers the session and emits, and leaves the reconnect
\* state of the peer as it was.
onopen_keepsReconnect(st, s) ==
    LET p == st.sockets[s].peer IN
    [st EXCEPT !.sockets[s].readyState = "OPEN",
               !.connections[p] = s,
               !.emitted = Append(@, <<"peer-connected", p>>),
               !.everConnected[p] = TRUE]

\* ws.onopen of socket s.
onopen(st, s) ==
    LET p == st.sockets[s].peer
        st1 == [st EXCEPT !.sockets[s].readyState = "OPEN",
                          !.connections[p] = s]
        st2 == DeleteAttempts(ClearTimer(st1, p), p)
    IN [st2 EXCEPT !.emitted = Append(@, <<"peer-connected", p>>),
                   !.everConnected[p] = TRUE]

\* ws.onclose of socket s: the socket is gone, the map entry of its peer is
\* deleted whichever socket it names, and a reconnect is scheduled.
onclose(st, s) ==
    LET p == st.sockets[s].peer
        st1 == [st EXCEPT !.sockets = Remove(@, s),
                          !.connections[p] = NoEntry,
                          !.emitted = Append(@, <<"peer-disconnected", p>>)]
    IN scheduleReconnect(st1, p)

\* ws.close(): the closing handshake starts; the close event comes later.
CloseSocket(st, s) ==
    IF s \in DOMAIN st.sockets
    THEN [st EXCEPT !.sockets[s].readyState = "CLOSING",
                    !.sockets[s].closeCalled = TRUE]
    ELSE st

\* disconnect(peerId).
disconnect(st, p) ==
    LET ws == st.connections[p]
        st1 == IF ws # NoEntry
               THEN [CloseSocket(st, ws) EXCEPT !.connections[p] = NoEntry]
               ELSE st
    IN DeleteAttempts(ClearTimer(st1, p), p)

RECURSIVE disconnectEach(_, _)
\* disconnectAll(): close every registered socket, clear every stored timer,
\* clear the three maps.
disconnectEach(st, ps) ==
    IF ps = {} THEN st
    ELSE LET p == CHOOSE x \in ps : TRUE
         IN disconnectEach(disconnect(st, p), ps \ {p})

disconnectAll(st) == disconnectEach(st, Peers)

\* --------------------------------------------------- sendTo and broadcast
\* JSON.stringify(message): the payload that goes on the wire.
Stringify(message) == <<"json", message>>

\* ws !== undefined && ws.readyState === WebSocket.OPEN.
IsOpen(ws) == ws # NoEntry /\ sockets[ws].readyState = "OPEN"

NoOutput == [sent |-> <<>>, logged |-> <<>>, thrown |-> FALSE, sentCount |-> 0]

\* ws.send(payload): queues the payload, or throws (failing: the sockets
\* whose send throws during this call).
wsSend(out, ws, message, failing) ==
    IF ws \in failing THEN [out EXCEPT !.thrown = TRUE]
    ELSE [out EXCEPT !.sent = Append(@, <<ws, Stringify(message)>>)]

\* try { ws.send(...) } without the catch: the exception leaves the call.
TrySend_noCatch(out, p, ws, message, failing) ==
    LET r == wsSend(out, ws, message, failing) IN
    IF r.thrown THEN r ELSE [r EXCEPT !.sentCount = @ + 1]

\* try { ws.send(...); sentCount++ } catch (err) { console.error(...) }.
\* sendTo has the same block without the counter, which nothing else reads.
TrySend(out, p, ws, message, failing) ==
    LET r == wsSend(out, ws, message, failing) IN
    IF r.thrown
    THEN [r EXCEPT !.thrown = FALSE,
                   !.logged = Append(@, <<"error", "Failed to send message", p>>)]
    ELSE [r EXCEPT !.sentCount = @ + 1]

\* sendTo(peer, message).
sendTo(p, message, failing) ==
    LET ws == connections[p] IN
    IF ~IsOpen(ws)
    THEN [NoOutput EXCEPT
             !.logged = Append(@, <<"error", "Cannot send message: not connected", p>>)]
    ELSE TrySend(NoOutput, p, ws, message, failing)

\* The loop's test without the readyState check.
Sendable_anyState(ws) == ws # NoEntry

\* The test of broadcast's loop body: ws && ws.readyState === WebSocket.OPEN.
Sendable(ws) == IsOpen(ws)

RECURSIVE broadcastFrom(_, _, _, _, _)
\* The for loop of broadcast from index i on; an exception ends it.
broadcastFrom(out, message, peers, failing, i) ==
    IF i > Len(peers) \/ out.thrown THEN out
    ELSE LET ws == connections[peers[i]]
             next == IF Sendable(ws)
                     THEN TrySend(out, peers[i], ws, message, failing)
                     ELSE out
         IN broadcastFrom(next, message, peers, failing, i + 1)

\* broadcast(message, peers).
broadcast(message, peers, failing) ==
    LET out == broadcastFrom(NoOutput, message, peers, failing, 1) IN
    IF ~out.thrown /\ out.sentCount = 0 /\ Len(peers) > 0
    THEN [out EXCEPT !.logged =
             Append(@, <<"warn", "Message not delivered: no active connections">>)]
    ELSE out

\* ---------------------------------------------------------------- Discovery
\* Two processes on one multicast segment, and one host that is not modelled
\* and can send any discovery datagram.  generateId() gives each process an
\* id of its own (Date.now() and nine random base-36 digits).
Procs == {1, 2}
Outsider == 3
Ids == Procs \cup {Outsider}
myId(i) == i

\* The announce interval, the cleanup interval and the expiry window (ms).
announceEvery == 5000
cleanupEvery == 10000
timeout == 15000

\* Time advances in steps of one announce interval, up to MaxTicks of them;
\* all processes start within the first StartWindow intervals; the host that
\* is not modelled sends at most MaxForeign datagrams.
MaxTicks == 4
StartWindow == 1
MaxForeign == 1

\* The port P2PChat asks its listener to bind, the cap of ChatServer.start's
\* retry loop, and the ports the loop can reach.
PreferredPort == 9876
maxAttempts == 10
Window == PreferredPort..(PreferredPort + maxAttempts)

\* The ids an event can carry: those, and the id of a datagram that has none
\* (data.id is undefined).
EventIds == Ids \cup {NoEntry}

Kinds == {"announce", "query"}

\* The DiscoveryMessage of host h sent under id at time t.
MessageAt(kind, id, h, t) ==
    [type |-> kind, id |-> id, username |-> <<"user", h>>,
     ip |-> <<"ip", h>>, port |-> 3000 + h, publicKey |-> <<"key", h>>,
     timestamp |-> t]

\* announce() and sendQuery(): the DiscoveryMessage process i sends.
Message(kind, i) == MessageAt(kind, myId(i), i, now)

\* A datagram of the host that is not modelled, under any id.
ForeignMessage(kind, id) == MessageAt(kind, id, Outsider, now)

\* Every datagram that can be in flight.
Datagrams ==
    {[to |-> j, data |-> MessageAt(kind, id, h, k * announceEvery)] :
        j \in Procs, kind \in Kinds, id \in Ids, h \in Ids, k \in 0..MaxTicks}

\* socket.send to the multicast group: one copy for every process whose
\* socket is bound, the sender included (setMulticastLoopback(true)).
Multicast(data, listeners) == SetToBag({[to |-> j, data |-> data] : j \in listeners})

announce(i, listeners) == Multicast(Message("announce", i), listeners)
sendQuery(i, listeners) == Multicast(Message("query", i), listeners)

Listeners == {j \in Procs : running[j]}

\* Before start(): no socket bound, nothing registered, no timer set.
InitDiscovery ==
    /\ now = 0
    /\ running = [i \in Procs |-> FALSE]
    /\ registry = [i \in Procs |-> <<>>]
    /\ nextAnnounce = [i \in Procs |-> 0]
    /\ nextCleanup = [i \in Procs |-> 0]
    /\ replyTimers = [i \in Procs |-> 0]
    /\ net = EmptyBag
    /\ found = [i \in Procs |-> [id \in EventIds |-> 0]]
    /\ lost = [i \in Procs |-> [id \in EventIds |-> 0]]
    /\ ownHeard = [i \in Procs |-> {}]
    /\ foreign = 0
    /\ stopped = [i \in Procs |-> FALSE]
    /\ sendErrors = [i \in Procs |-> 0]

\* handleMessage without the test of the sender's id.
handleMessage_noSelfFilter(i, data) ==
    LET peer == [id |-> data.id, username |-> data.username, ip |-> data.ip,
                 port |-> data.port, publicKey |-> data.publicKey,
                 lastSeen |-> now]
        isNewPeer == data.id \notin DOMAIN registry[i]
    IN /\ registry' = [registry EXCEPT ![i] = Put(@, data.id, peer)]
       /\ found' = IF isNewPeer THEN [found EXCEPT ![i][data.id] = @ + 1]
                   ELSE found
       /\ replyTimers' = IF isNewPeer /\ data.type = "query"
                         THEN [replyTimers EXCEPT ![i] = @ + 1]
                         ELSE replyTimers

\* handleMessage taking every sender for a new peer.
handleMessage_alwaysNew(i, data) ==
    IF data.id = myId(i)
    THEN UNCHANGED <<registry, found, replyTimers>>
    ELSE LET peer == [id |-> data.id, username |-> data.username, ip |-> data.ip,
                      port |-> data.port, publicKey |-> data.publicKey,
                      lastSeen |-> now]
         IN /\ registry' = [registry EXCEPT ![i] = Put(@, data.id, peer)]
            /\ found' = [found EXCEPT ![i][data.id] = @ + 1]
            /\ replyTimers' = IF data.type = "query"
                              THEN [replyTimers EXCEPT ![i] = @ + 1]
                              ELSE replyTimers

\* Discovery.handleMessage of process i, for a datagram that parses.
handleMessage(i, data) ==
    IF data.id = myId(i)
    THEN UNCHANGED <<registry, found, replyTimers>>
    ELSE LET peer == [id |-> data.id, username |-> data.username, ip |-> data.ip,
                      port |-> data.port, publicKey |-> data.publicKey,
                      lastSeen |-> now]
             isNewPeer == data.id \notin DOMAIN registry[i]
         IN /\ registry' = [registry EXCEPT ![i] = Put(@, data.id, peer)]
            /\ found' = IF isNewPeer THEN [found EXCEPT ![i][data.id] = @ + 1]
                        ELSE found
            /\ replyTimers' = IF isNewPeer /\ data.type = "query"
                              THEN [replyTimers EXCEPT ![i] = @ + 1]
                              ELSE replyTimers

\* A sweep that removes nothing.
Stale_never(i) == {}

\* A sweep whose window is one cleanup interval longer.
Stale_lenient(i) ==
    {id \in DOMAIN registry[i] :
        now - registry[i][id].lastSeen > timeout + cleanupEvery}

\* The entries the sweep of process i removes.
Stale(i) == {id \in DOMAIN registry[i] : now - registry[i][id].lastSeen > timeout}

\* start(): the socket is bound and joins the group; startAnnouncing()
\* announces at once and every 5 s, sendQuery() sends the query,
\* startCleanup() starts the sweep.
Start(i) ==
    /\ ~running[i]
    /\ ~stopped[i]
    /\ now <= StartWindow * announceEvery
    /\ running' = [running EXCEPT ![i] = TRUE]
    /\ net' = net (+) announce(i, Listeners \cup {i})
                  (+) sendQuery(i, Listeners \cup {i})
    /\ nextAnnounce' = [nextAnnounce EXCEPT ![i] = now + announceEvery]
    /\ nextCleanup' = [nextCleanup EXCEPT ![i] = now + cleanupEvery]
    /\ UNCHANGED <<now, registry, replyTimers, found, lost, ownHeard, foreign>>
    /\ UNCHANGED <<stopped, sendErrors>>
    /\ UNCHANGED nonDisc

\* A datagram reaches the socket of its receiver: what Discovery does.
DeliverStep(d) ==
    /\ BagIn(d, net)
    /\ running[d.to]
    /\ net' = net (-) SetToBag({d})
    /\ handleMessage(d.to, d.data)
    /\ ownHeard' = IF d.data.id = myId(d.to)
                   THEN [ownHeard EXCEPT ![d.to] = @ \cup {d.data.type}]
                   ELSE ownHeard
    /\ UNCHANGED <<now, running, nextAnnounce, nextCleanup, lost, foreign>>
    /\ UNCHANGED <<stopped, sendErrors>>

\* The same, in a process whose router is not modelled.
Deliver(d) ==
    /\ DeliverStep(d)
    /\ UNCHANGED nonDisc

\* The announce interval of process i fires.
AnnounceTimer(i) ==
    /\ running[i]
    /\ nextAnnounce[i] = now
    /\ net' = net (+) announce(i, Listeners)
    /\ nextAnnounce' = [nextAnnounce EXCEPT ![i] = now + announceEvery]
    /\ UNCHANGED <<now, running, registry, nextCleanup, replyTimers, found,
                   lost, ownHeard, foreign>>
    /\ UNCHANGED <<stopped, sendErrors>>
    /\ UNCHANGED nonDisc

\* The cleanup interval of process i fires: what Discovery does.
CleanupStep(i) ==
    /\ running[i]
    /\ nextCleanup[i] = now
    /\ registry' = [registry EXCEPT ![i] =
                       [id \in DOMAIN @ \ Stale(i) |-> @[id]]]
    /\ lost' = [lost EXCEPT ![i] =
                   [id \in EventIds |-> IF id \in Stale(i) THEN @[id] + 1 ELSE @[id]]]
    /\ nextCleanup' = [nextCleanup EXCEPT ![i] = now + cleanupEvery]
    /\ UNCHANGED <<now, running, nextAnnounce, replyTimers, net, found,
                   ownHeard, foreign>>
    /\ UNCHANGED <<stopped, sendErrors>>

\* The same, in a process whose router is not modelled.
CleanupTimer(i) ==
    /\ CleanupStep(i)
    /\ UNCHANGED nonDisc

\* A jittered reply timer of process i fires: announce().
ReplyTimer(i) ==
    /\ replyTimers[i] > 0
    /\ replyTimers' = [replyTimers EXCEPT ![i] = @ - 1]
    /\ IF running[i]
       THEN /\ net' = net (+) announce(i, Listeners)
            /\ sendErrors' = sendErrors
       ELSE \* socket.send on the closed socket raises; nothing is sent
            /\ net' = net
            /\ sendErrors' = [sendErrors EXCEPT ![i] = @ + 1]
    /\ UNCHANGED <<now, running, registry, nextAnnounce, nextCleanup, found,
                   lost, ownHeard, foreign, stopped>>
    /\ UNCHANGED nonDisc

\* One announce interval passes, once everything due before it has run:
\* the datagrams sent (the segment delivers within the interval), the
\* jittered replies (at most 1 s) and the interval timers that are due.
Tick ==
    /\ now < MaxTicks * announceEvery
    /\ \E i \in Procs : running[i]
    /\ now >= StartWindow * announceEvery =>
          \A i \in Procs : running[i] \/ stopped[i]
    /\ net = EmptyBag
    /\ \A i \in Procs : replyTimers[i] = 0
    /\ \A i \in Procs : running[i] => nextAnnounce[i] > now /\ nextCleanup[i] > now
    /\ now' = now + announceEvery
    /\ UNCHANGED <<running, registry, nextAnnounce, nextCleanup, replyTimers,
                   net, found, lost, ownHeard, foreign>>
    /\ UNCHANGED <<stopped, sendErrors>>
    /\ UNCHANGED nonDisc

\* Discovery.stop() of process i: both intervals are cleared, the group is
\* left and the socket closed.  The reply timers are left as they are.
StopStep(i) ==
    /\ running[i]
    /\ running' = [running EXCEPT ![i] = FALSE]
    /\ stopped' = [stopped EXCEPT ![i] = TRUE]
    /\ nextAnnounce' = [nextAnnounce EXCEPT ![i] = 0]
    /\ nextCleanup' = [nextCleanup EXCEPT ![i] = 0]
    /\ UNCHANGED <<now, registry, net, found, lost, ownHeard, foreign,
                   sendErrors>>

Stop(i) ==
    /\ StopStep(i)
    /\ UNCHANGED replyTimers
    /\ UNCHANGED nonDisc

\* A datagram addressed to a socket that was closed meanwhile is lost.
Drop(d) ==
    /\ BagIn(d, net)
    /\ ~running[d.to]
    /\ net' = net (-) SetToBag({d})
    /\ UNCHANGED <<now, running, registry, nextAnnounce, nextCleanup,
                   replyTimers, found, lost, ownHeard, foreign, stopped,
                   sendErrors>>
    /\ UNCHANGED nonDisc

\* The host that is not modelled sends a datagram; it reaches process j.
Inject(kind, id, j) ==
    /\ foreign < MaxForeign
    /\ running[j]
    /\ foreign' = foreign + 1
    /\ net' = net (+) Multicast(ForeignMessage(kind, id), {j})
    /\ UNCHANGED <<now, running, registry, nextAnnounce, nextCleanup,
                   replyTimers, found, lost, ownHeard>>
    /\ UNCHANGED <<stopped, sendErrors>>
    /\ UNCHANGED nonDisc

\* ------------------------------------------------------ Inbound Listener
\* The id a handshake presents: url.searchParams.get('id'), which is null
\* when the request has none, and the id the listener files the session under.
NoParam == 0
Unknown == 99
HandshakeParams == Ids \cup {NoParam}
peerIdOf(param) == IF param = NoParam THEN Unknown ELSE param

\* The handles of accepted sessions.
InboundHandles == 1..MaxInbound

\* A field a message does not have.
Absent == <<>>

\* What handleOpen sends on the session it accepted.
Welcome == [type |-> "system", from |-> Absent, to |-> NoEntry,
            content |-> <<"text", "Connected to chat server">>,
            senderPublicKey |-> Absent]

\* ChatServer.handleOpen: connections.set(peerId, ws).
handleOpen(conns, w, peerId) == Put(conns, peerId, w)

\* ChatServer.handleClose: connections.delete(peerId).
handleClose(conns, w, peerId) == Remove(conns, peerId)

\* The status probe (GET /health): connections.size.
health == Cardinality(DOMAIN serverConnections)

\* ChatServer.isConnected(peerId).
serverIsConnected(peerId) ==
    /\ peerId \in DOMAIN serverConnections
    /\ inbound[serverConnections[peerId]].readyState = "OPEN"

\* A peer's handshake (GET /chat?id=...) is upgraded, and handleOpen runs.
InboundOpen(param) ==
    /\ listener.server # NoEntry
    /\ Cardinality(DOMAIN inbound) < limits.inbound
    /\ LET w == Min(InboundHandles \ DOMAIN inbound) IN
          /\ inbound' = Put(inbound, w, [peerId |-> peerIdOf(param),
                                         readyState |-> "OPEN",
                                         out |-> <<Stringify(Welcome)>>])
          /\ serverConnections' = handleOpen(serverConnections, w, peerIdOf(param))
    /\ UNCHANGED <<listener, occupied, received, port>>
    /\ UNCHANGED <<cmVars, sendVars, discVars, routerVars>>

\* An accepted session ends, and handleClose runs.
InboundClose(w) ==
    /\ w \in DOMAIN inbound
    /\ inbound' = Remove(inbound, w)
    /\ serverConnections' = handleClose(serverConnections, w, inbound[w].peerId)
    /\ UNCHANGED <<listener, occupied, received, port>>
    /\ UNCHANGED <<cmVars, sendVars, discVars, routerVars>>

\* ----------------------------------------------------------------- actions
InitSendVars ==
    /\ lastCall = [op |-> "none"]
    /\ sent = <<>>
    /\ logged = <<>>
    /\ raised = FALSE
    /\ returned = <<>>

\* A router and a listener as constructed: nothing registered, nothing
\* received, no session accepted.
InitIdle ==
    /\ chatPeers = <<>>
    /\ heard = [outbound |-> <<>>, inbound |-> <<>>]
    /\ dispatched = <<>>
    /\ uiCalls = <<>>
    /\ exited = FALSE
    /\ atExit = [outbound |-> 0, reconnects |-> 0, replies |-> 0, inbound |-> 0]
    /\ inbound = <<>>
    /\ serverConnections = <<>>
    /\ received = <<>>

RECURSIVE startFrom(_, _, _)
\* ChatServer.start: the loop from the state l on.  Bun.serve throws
\* EADDRINUSE on a port of occ and another error on the port denied; the loop
\* ends by the return after a bind, by the rethrown error, or by its test.
startFrom(l, occ, denied) ==
    IF l.attempts >= maxAttempts THEN [l EXCEPT !.result = "returned"]
    ELSE IF l.port = denied THEN [l EXCEPT !.result = "threw"]
    ELSE IF l.port \in occ
         THEN startFrom([l EXCEPT !.port = @ + 1, !.attempts = @ + 1], occ, denied)
         ELSE [l EXCEPT !.server = l.port, !.result = "returned"]

\* ChatServer.start().
start(l, occ, denied) == startFrom([l EXCEPT !.attempts = 0], occ, denied)

\* ChatServer.getPort().
getPort(l) == l.port

\* A ChatServer as P2PChat constructs it: new ChatServer(9876), not started.
Constructed ==
    [port |-> PreferredPort, server |-> NoEntry, attempts |-> 0, result |-> "none"]

\* The listener once start() has bound the preferred port.
InitListening ==
    /\ occupied = {}
    /\ listener = start(Constructed, {}, NoEntry)
    /\ port = getPort(start(Constructed, {}, NoEntry))

\* A ChatClient as constructed: empty maps.
InitMaps ==
    /\ connections = [p \in Peers |-> NoEntry]
    /\ sockets = <<>>
    /\ reconnectTimers = [p \in Peers |-> NoEntry]
    /\ reconnectAttempts = [p \in Peers |-> NoEntry]
    /\ timers = <<>>
    /\ emitted = <<>>
    /\ everConnected = [p \in Peers |-> FALSE]
    /\ delays = [p \in Peers |-> <<>>]
    /\ connectCalls = [p \in Peers |-> 0]
    /\ disconnected = [p \in Peers |-> "no"]
    /\ capReached = [p \in Peers |-> FALSE]

InitClient ==
    /\ InitSendVars
    /\ InitDiscovery
    /\ InitIdle
    /\ InitListening
    /\ rev \in Revs
    /\ urlOk \in [Peers -> BOOLEAN]
    /\ InitMaps

\* client.connectToPeer(peer): what the Connection Manager does.
ConnectStep(p) ==
    /\ LET st == connectToPeer([CM EXCEPT !.capReached[p] = FALSE], p) IN
       WithinBounds(st) /\ Commit(st)
    /\ connectCalls' = [connectCalls EXCEPT ![p] = @ + 1]
    /\ disconnected' = [disconnected EXCEPT ![p] = "no"]
    /\ UNCHANGED <<limits, rev, urlOk>>

\* The router's peer-found handler calls client.connectToPeer(peer).
Connect(p) ==
    /\ p \in limits.peers
    /\ Sum(connectCalls, Peers) < limits.calls
    /\ ConnectStep(p)
    /\ UNCHANGED nonCM

\* The open event of a connecting socket.
WsOpen(s) ==
    /\ s \in DOMAIN sockets
    /\ sockets[s].readyState = "CONNECTING"
    /\ Commit(onopen(CM, s))
    /\ UNCHANGED <<limits, rev, urlOk, connectCalls, disconnected>>
    /\ UNCHANGED nonCM

\* The remote end starts the closing handshake of an open socket.
WsRemoteClosing(s) ==
    /\ s \in DOMAIN sockets
    /\ sockets[s].readyState = "OPEN"
    /\ sockets' = [sockets EXCEPT ![s].readyState = "CLOSING"]
    /\ emitted' = <<>>
    /\ UNCHANGED <<limits, rev, urlOk, connections, reconnectTimers,
                   reconnectAttempts, timers, everConnected, delays,
                   connectCalls, disconnected, capReached>>
    /\ UNCHANGED nonCM

\* The close event of a socket: a failed attempt, a dropped session, or the
\* end of a closing handshake.
WsClose(s) ==
    /\ s \in DOMAIN sockets
    /\ LET st == onclose(CM, s) IN WithinBounds(st) /\ Commit(st)
    /\ disconnected' =
           [disconnected EXCEPT ![sockets[s].peer] =
               IF sockets[s].closeCalled /\ @ = "called" THEN "delivered" ELSE @]
    /\ UNCHANGED <<limits, rev, urlOk, connectCalls>>
    /\ UNCHANGED nonCM

\* A reconnect timer expires: its callback calls connectToPeer(peer).
TimerFire(t) ==
    /\ t \in DOMAIN timers
    /\ LET st == connectToPeer([CM EXCEPT !.timers = Remove(@, t)],
                               timers[t].peer)
       IN WithinBounds(st) /\ Commit(st)
    /\ UNCHANGED <<limits, rev, urlOk, connectCalls, disconnected>>
    /\ UNCHANGED nonCM

AfterDisconnect(d) == IF d = "no" THEN "called" ELSE d

Disconnect(p) ==
    /\ connectCalls[p] > 0
    /\ Commit(disconnect(CM, p))
    /\ disconnected' = [disconnected EXCEPT ![p] = AfterDisconnect(@)]
    /\ UNCHANGED <<limits, rev, urlOk, connectCalls>>
    /\ UNCHANGED nonCM

DisconnectAll ==
    /\ Commit(disconnectAll(CM))
    /\ disconnected' = [p \in Peers |->
           IF connectCalls[p] > 0 THEN AfterDisconnect(disconnected[p])
           ELSE disconnected[p]]
    /\ UNCHANGED <<limits, rev, urlOk, connectCalls>>
    /\ UNCHANGED nonCM

NextCM ==
    \/ \E p \in Peers : Connect(p)
    \/ \E s \in AllHandles : WsOpen(s)
    \/ \E s \in AllHandles : WsRemoteClosing(s)
    \/ \E s \in AllHandles : WsClose(s)
    \/ \E t \in AllHandles : TimerFire(t)
    \/ \E p \in Peers : Disconnect(p)
    \/ DisconnectAll

InitCM ==
    /\ InitClient
    /\ limits = [peers |-> Peers, calls |-> MaxConnectCalls, timers |-> MaxTimers,
                 inbound |-> 0]

SpecCM == InitCM /\ [][NextCM]_vars

InitBackoff ==
    /\ InitClient
    /\ limits = [peers |-> {1}, calls |-> DeepConnectCalls, timers |-> DeepTimers,
                 inbound |-> 0]

SpecBackoff == InitBackoff /\ [][NextCM]_vars

\* ------------------------------------------------------ the send calls
\* The peers the router knows, the lists it can hand to broadcast (its
\* registry's values: distinct ids in insertion order), and the messages.
Known == {1, 2, 3}
PeerLists ==
    {l \in UNION {[1..n -> Known] : n \in 0..Cardinality(Known)} :
        \A i, j \in 1..Len(l) : i # j => l[i] # l[j]}
Messages ==
    {[type |-> "broadcast", from |-> "me", content |-> "hi"],
     [type |-> "typing", from |-> "me", content |-> ""]}

\* The one socket of peer p, when it has a session.
SessionOf(p) == 10 * p + 1

\* A registered session is OPEN, or CLOSING once the remote end has started
\* the closing handshake (WsRemoteClosing); a peer may have none.
SessionStates == {"none", "OPEN", "CLOSING"}

\* The ChatClient with the sessions f gives its peers, f drawn from F.
InitSessions(F) ==
    /\ urlOk = [p \in Known |-> TRUE]
    /\ \E f \in F :
          /\ connections =
                [p \in Known |-> IF f[p] = "none" THEN NoEntry ELSE SessionOf(p)]
          /\ sockets =
                [s \in {SessionOf(p) : p \in {q \in Known : f[q] # "none"}} |->
                    [peer |-> (s - 1) \div 10, readyState |-> f[(s - 1) \div 10],
                     closeCalled |-> FALSE]]
    /\ reconnectTimers = [p \in Known |-> NoEntry]
    /\ reconnectAttempts = [p \in Known |-> NoEntry]
    /\ timers = <<>>
    /\ emitted = <<>>
    /\ everConnected = [p \in Known |-> connections[p] # NoEntry]
    /\ delays = [p \in Known |-> <<>>]
    /\ connectCalls = [p \in Known |-> IF connections[p] # NoEntry THEN 1 ELSE 0]
    /\ disconnected = [p \in Known |-> "no"]
    /\ capReached = [p \in Known |-> FALSE]

InitSend ==
    /\ InitSendVars
    /\ InitDiscovery
    /\ InitIdle
    /\ InitListening
    /\ limits = [peers |-> {}, calls |-> 0, timers |-> 0, inbound |-> 0]
    /\ rev \in Revs
    /\ InitSessions([Known -> SessionStates])

Record(call, out) ==
    /\ lastCall' = call
    /\ sent' = out.sent
    /\ logged' = out.logged
    /\ raised' = out.thrown
    /\ returned' = <<>>
    /\ UNCHANGED <<cmVars, discVars, routerVars, serverVars>>

\* The router's sendBroadcast and broadcastTyping: client.broadcast(msg, peers).
Broadcast(message, peers, failing) ==
    Record([op |-> "broadcast", message |-> message, peers |-> peers,
            failing |-> failing],
           broadcast(message, peers, failing))

\* client.sendTo(peer, msg).
SendTo(p, message, failing) ==
    Record([op |-> "sendTo", message |-> message, peers |-> <<p>>,
            failing |-> failing],
           sendTo(p, message, failing))

NextSend ==
    \/ \E m \in Messages, l \in PeerLists, f \in SUBSET DOMAIN sockets :
          Broadcast(m, l, f)
    \/ \E p \in Known, m \in Messages, f \in SUBSET DOMAIN sockets :
          SendTo(p, m, f)

SpecSend == InitSend /\ [][NextSend]_vars

\* ------------------------------------------------ the send calls: the claims
\* The listed peers with an open session, and those of them whose send goes
\* through, in list order.
OpenTargets == SelectSeq(lastCall.peers, LAMBDA p : IsOpen(connections[p]))
Reached == SelectSeq(OpenTargets, LAMBDA p : connections[p] \notin lastCall.failing)
Failed == SelectSeq(OpenTargets, LAMBDA p : connections[p] \in lastCall.failing)

\* The console lines that are not the report of a send that threw.
SkipLines == SelectSeq(logged, LAMBDA l : l[2] # "Failed to send message")

\* One send of the call's message to each of the peers ps, in order.
SendsTo(ps) ==
    [i \in 1..Len(ps) |-> <<connections[ps[i]], Stringify(lastCall.message)>>]

C8_FailureIsContained ==
    lastCall.op \in {"sendTo", "broadcast"} =>
        /\ ~raised
        /\ \A i \in 1..Len(Reached) :
              \E k \in 1..Len(sent) : sent[k][1] = connections[Reached[i]]

\* broadcast: the send to an earlier target threw, a later target was sent to.
C8_Witness ==
    /\ lastCall.op = "broadcast"
    /\ ~raised
    /\ \E i, j \in 1..Len(lastCall.peers) :
          /\ i < j
          /\ IsOpen(connections[lastCall.peers[i]])
          /\ connections[lastCall.peers[i]] \in lastCall.failing
          /\ IsOpen(connections[lastCall.peers[j]])
          /\ \E k \in 1..Len(sent) : sent[k][1] = connections[lastCall.peers[j]]

\* ------------------------------------------- Connection Manager: the claims
\* The model keeps no clock: pending timers fire in any order, which allows
\* every order the delays allow and some they do not.  What holds of the
\* model holds of the code; the runs that refute a claim below have at most
\* one timer pending per peer at a time.
SocketsOf(p, states) ==
    {s \in DOMAIN sockets : sockets[s].peer = p /\ sockets[s].readyState \in states}
TimersOf(p) == {t \in DOMAIN timers : timers[t].peer = p}

IsPrefix(s, t) == Len(s) <= Len(t) /\ \A i \in 1..Len(s) : s[i] = t[i]

\* The delays of the backoff: reconnectDelay * 2^k for k = 0..4.
Backoff == [k \in 1..maxReconnectAttempts |-> reconnectDelay * Pow2(k - 1)]

\* A peer with a well-formed address, connected to once, no attempt to which
\* has succeeded, and not disconnected: an unreachable peer.
Unreachable(p) ==
    urlOk[p] /\ connectCalls[p] = 1 /\ ~everConnected[p] /\ disconnected[p] = "no"

\* Nothing is in flight for p: no live socket and no pending timer.
Quiet(p) == SocketsOf(p, {"CONNECTING", "OPEN", "CLOSING"}) = {} /\ TimersOf(p) = {}

\* C1: for a peer whose every attempt fails, the reconnects after the initial
\* connect are scheduled with delays 2s, 4s, 8s, 16s, 32s in that order, there
\* are exactly 5 of them, and then nothing more is attempted.
C1_BackoffSchedule ==
    \A p \in Peers : Unreachable(p) =>
        /\ IsPrefix(delays[p], Backoff)
        /\ (Quiet(p) => delays[p] = Backoff)

\* C2: after disconnect(id) or disconnectAll() has closed the session of id
\* and the close event of that socket has been delivered, and until connect
\* is called again for id, no session is registered for it and no reconnect
\* timer for it is stored or pending.
C2_DisconnectStops ==
    \A p \in Peers : disconnected[p] = "delivered" =>
        /\ connections[p] = NoEntry
        /\ reconnectTimers[p] = NoEntry
        /\ TimersOf(p) = {}

\* C3: connect(peer) with an outbound session registered under peer.id opens
\* no socket, emits no event and leaves the session map and the reconnect
\* state as they were.
C3_ConnectIdempotent ==
    [][\A p \in Peers :
        (connectCalls'[p] = connectCalls[p] + 1 /\ connections[p] # NoEntry) =>
            /\ sockets' = sockets
            /\ connections' = connections
            /\ reconnectTimers' = reconnectTimers
            /\ reconnectAttempts' = reconnectAttempts
            /\ timers' = timers
            /\ emitted' = <<>>]_vars

\* Two connect calls were made for p and only one socket was ever created for
\* it (no close ever scheduled a reconnect): one call found the session.
C3_Witness ==
    \E p \in Peers :
        /\ connectCalls[p] = 2
        /\ delays[p] = <<>>
        /\ connections[p] # NoEntry
        /\ SocketsOf(p, {"CONNECTING", "OPEN", "CLOSING"}) = {connections[p]}

\* C4: at any time there is at most one outbound socket, connecting or open,
\* per peer id.
C4_OneSocketPerPeer ==
    \A p \in Peers : Cardinality(SocketsOf(p, {"CONNECTING", "OPEN"})) <= 1

C6_CapClearsState ==
    \A p \in Peers : (capReached[p] /\ connectCalls[p] = 1 /\ urlOk[p]) =>
        /\ reconnectAttempts[p] = NoEntry
        /\ reconnectTimers[p] = NoEntry
        /\ TimersOf(p) = {}

\* ------------------------------------------------------ Discovery: the runs
\* The processes and the segment, every datagram delivered.
NextDelivered ==
    \/ \E i \in Procs : Start(i)
    \/ \E d \in Datagrams : Deliver(d)
    \/ \E i \in Procs : AnnounceTimer(i)
    \/ \E i \in Procs : CleanupTimer(i)
    \/ \E i \in Procs : ReplyTimer(i)
    \/ Tick

\* The same, with the datagrams of the host that is not modelled.
NextDiscovery ==
    \/ NextDelivered
    \/ \E kind \in Kinds, id \in Ids, j \in Procs : Inject(kind, id, j)

\* The router builds its ChatClient from src/client.ts; it is idle here.
InitDisc ==
    /\ InitSendVars
    /\ InitDiscovery
    /\ InitIdle
    /\ InitListening
    /\ limits = [peers |-> {}, calls |-> 0, timers |-> 0, inbound |-> 0]
    /\ rev = "client"
    /\ urlOk = [p \in Peers |-> TRUE]
    /\ InitMaps

SpecDiscovery == InitDisc /\ [][NextDiscovery]_vars

\* The event loop of a process runs every callback that is due, the segment
\* delivers every datagram, and time passes.
SpecDelivered == InitDisc /\ [][NextDelivered]_vars /\ WF_vars(NextDelivered)

\* ------------------------------------------------- Discovery: the claims
\* C9: the own discovery id of a process is never a key of its own registry
\* and no peer-found is ever emitted for it, whatever announce and query
\* datagrams it has received, its own looped-back ones included.
C9_NeverRegistersSelf ==
    \A i \in Procs : myId(i) \notin DOMAIN registry[i] /\ found[i][myId(i)] = 0

\* A process has handled its own looped-back announce and query, over more
\* than one announce interval, and has registered both the other process and
\* the host that is not modelled.
C9_Witness ==
    \E i \in Procs :
        /\ ownHeard[i] = Kinds
        /\ now > announceEvery
        /\ net = EmptyBag
        /\ DOMAIN registry[i] = Ids \ {myId(i)}

\* C10: two processes started within one announce interval of each other,
\* with datagrams delivered, each eventually hold exactly one registry entry,
\* the one for the other, and have each emitted exactly one peer-found for
\* the other's id, and this stays so.
C10_MutualDiscovery ==
    <>[](\A i, j \in Procs : i # j =>
            /\ DOMAIN registry[i] = {myId(j)}
            /\ registry[i][myId(j)].id = myId(j)
            /\ found[i][myId(j)] = 1)

\* Both processes have run for all the intervals, each has handled
\* announces and a query of the other, and each holds the other once.
C10_Witness ==
    /\ now = MaxTicks * announceEvery
    /\ net = EmptyBag
    /\ \A i, j \in Procs : i # j =>
          /\ DOMAIN registry[i] = {myId(j)}
          /\ found[i][myId(j)] = 1
          /\ registry[i][myId(j)].lastSeen = now

\* The datagram d reaches its receiver in this step.
Handled(d) ==
    /\ BagIn(d, net)
    /\ running[d.to]
    /\ net' = net (-) SetToBag({d})

\* C25: every query datagram a process receives from another process makes it
\* schedule exactly one jittered reply announce, whether or not the sender is
\* in its registry already; an announce makes it schedule none.
C25_QueryCausesOneReply ==
    [][\A d \in Datagrams :
          Handled(d) /\ d.data.id # myId(d.to) =>
              replyTimers'[d.to] =
                  replyTimers[d.to] + (IF d.data.type = "query" THEN 1 ELSE 0)]_vars

\* ------------------------------------------ Discovery: a segment that loses
\* The datagrams are UDP multicast: the segment may lose any of them.
Lose(d) ==
    /\ BagIn(d, net)
    /\ net' = net (-) SetToBag({d})
    /\ UNCHANGED <<now, running, registry, nextAnnounce, nextCleanup,
                   replyTimers, found, lost, ownHeard, foreign, stopped,
                   sendErrors>>
    /\ UNCHANGED nonDisc

NextLossy ==
    \/ NextDelivered
    \/ \E d \in Datagrams : Lose(d)

SpecLossy == InitDisc /\ [][NextLossy]_vars

\* C32: for each peer id the peer-found and peer-lost events of a Discovery
\* alternate strictly, peer-found first: peer-found(id) is emitted only when
\* id is absent from the registry (and enters it), peer-lost(id) only when it
\* is present (and leaves it).
C32_FoundLostAlternate ==
    [][\A i \in Procs : \A id \in EventIds :
          /\ found'[i][id] # found[i][id] =>
                /\ found'[i][id] = found[i][id] + 1
                /\ found[i][id] = lost[i][id]
                /\ lost'[i][id] = lost[i][id]
                /\ id \notin DOMAIN registry[i]
                /\ id \in DOMAIN registry'[i]
          /\ lost'[i][id] # lost[i][id] =>
                /\ lost'[i][id] = lost[i][id] + 1
                /\ found[i][id] = lost[i][id] + 1
                /\ found'[i][id] = found[i][id]
                /\ id \in DOMAIN registry[i]
                /\ id \notin DOMAIN registry'[i]]_vars

\* Process 1 found process 2, lost it while its announces did not arrive,
\* and found it again.
C32_Witness ==
    /\ found[1][2] = 2
    /\ lost[1][2] = 1
    /\ 2 \in DOMAIN registry[1]


\* ---------------------------------------------- Discovery: processes that stop
\* What the event loops and the segment do by themselves.
Progress ==
    \/ NextDelivered
    \/ \E d \in Datagrams : Drop(d)

\* A process may stop its Discovery service at any time.
NextLifecycle ==
    \/ Progress
    \/ \E i \in Procs : Stop(i)

\* Every due callback runs, every datagram is delivered or lost on a closed
\* socket, and time passes; nothing obliges a process to stop.
SpecLifecycle == InitDisc /\ [][NextLifecycle]_vars /\ WF_vars(Progress)

\* ------------------------------------------------------ expiry and stop: the claims
\* The age of the entry process i holds for id.
Age(i, id) == now - registry[i][id].lastSeen

\* The end of the run.
Horizon == MaxTicks * announceEvery

\* C11 as the specification words it: every entry of the registry of a
\* running service has now - lastSeen < 15 s.
C11_WithinWindow ==
    \A i \in Procs : running[i] =>
        \A id \in DOMAIN registry[i] : Age(i, id) < timeout

\* C11, amended: every entry of a running service was within the expiry
\* window (now - lastSeen <= 15 s) when the service last swept; it stays
\* registered, with no peer-lost, until the next sweep, so its age is at most
\* the expiry window plus one cleanup interval (25 s).
C11_WithinWindowAtSweep ==
    \A i \in Procs : running[i] =>
        \A id \in DOMAIN registry[i] :
            /\ registry[i][id].lastSeen + timeout + cleanupEvery >= nextCleanup[i]
            /\ Age(i, id) <= timeout + cleanupEvery

\* A running service holds an entry older than the expiry window for which
\* it has emitted no peer-lost.
C11_Witness ==
    \E i \in Procs : \E id \in DOMAIN registry[i] :
        /\ running[i]
        /\ Age(i, id) > timeout
        /\ lost[i][id] = 0

\* C12: an entry of a running service that no datagram has refreshed for
\* longer than the expiry window (a sweep still being due within the run) is
\* eventually removed, unless the service itself stops; and every removal of
\* an entry emits exactly one peer-lost for its id, peer-lost being emitted
\* for nothing else.
C12_StaleIsRemoved ==
    /\ \A i \in Procs : \A id \in Ids :
          (/\ running[i]
           /\ id \in DOMAIN registry[i]
           /\ Age(i, id) > timeout
           /\ nextCleanup[i] <= Horizon)
              ~> (id \notin DOMAIN registry[i] \/ stopped[i])
    /\ [][\A i \in Procs : \A id \in Ids :
            lost'[i][id] =
                IF id \in DOMAIN registry[i] /\ id \notin DOMAIN registry'[i]
                THEN lost[i][id] + 1 ELSE lost[i][id]]_vars

\* A running service has removed the entry of a process that stopped, with
\* one peer-lost.
C12_Witness ==
    \E i, j \in Procs :
        /\ running[i]
        /\ stopped[j]
        /\ found[i][myId(j)] = 1
        /\ myId(j) \notin DOMAIN registry[i]
        /\ lost[i][myId(j)] = 1

\* C13: after Discovery.stop() no timer of the service is pending (no
\* announce interval, no cleanup interval, no jittered reply) and none fires:
\* no announce() runs after stop.  (No datagram leaves after stop either
\* way: the socket is closed.)
C13_StopCancelsTimers ==
    \A i \in Procs : stopped[i] =>
        /\ nextAnnounce[i] = 0
        /\ nextCleanup[i] = 0
        /\ replyTimers[i] = 0
        /\ sendErrors[i] = 0

\* ------------------------------------------------------------- the router
\* The process whose router, Connection Manager and listener are modelled;
\* the other process is a peer of it.
Self == 1

\* Map operations on P2PChat.peers (a Map iterates in insertion order, and
\* set() of a key it has keeps the key's place).
MapHas(m, id) == \E k \in 1..Len(m) : m[k].id = id
MapSet(m, peer) ==
    IF MapHas(m, peer.id)
    THEN [k \in 1..Len(m) |-> IF m[k].id = peer.id THEN peer ELSE m[k]]
    ELSE Append(m, peer)
MapDelete(m, ids) == SelectSeq(m, LAMBDA e : e.id \notin ids)
MapIds(m) == {m[k].id : k \in 1..Len(m)}

\* A peer-found handler that only registers the peer.
onPeerFound_noConnect(peer) ==
    /\ chatPeers' = MapSet(chatPeers, peer)
    /\ UNCHANGED cmVars

\* discovery.on('peer-found'): peers.set(peer.id, peer), then
\* client.connectToPeer(peer).
onPeerFound(peer) ==
    /\ chatPeers' = MapSet(chatPeers, peer)
    /\ ConnectStep(peer.id)

\* A peer-lost handler that keeps the peer.
onPeerLost_keeps(ids) ==
    /\ UNCHANGED chatPeers
    /\ UNCHANGED cmVars

\* discovery.on('peer-lost'), for each id a sweep reports: peers.delete(id)
\* when the registry has it.  The Connection Manager is not called.
onPeerLost(ids) ==
    /\ chatPeers' = MapDelete(chatPeers, ids)
    /\ UNCHANGED cmVars

\* A datagram reaches Self: handleMessage runs, and the peer-found handler
\* within it when handleMessage emits peer-found.
RouterDeliver(d) ==
    /\ d.to = Self
    /\ DeliverStep(d)
    /\ IF found'[Self] # found[Self]
       THEN onPeerFound(registry'[Self][d.data.id])
       ELSE UNCHANGED <<chatPeers, cmVars>>
    /\ UNCHANGED <<heard, dispatched, uiCalls, exited, atExit>>
    /\ UNCHANGED <<sendVars, serverVars>>

\* The cleanup interval of Self fires: the sweep, and the peer-lost handler
\* for every id it removes.
RouterSweep ==
    /\ CleanupStep(Self)
    /\ onPeerLost(Stale(Self))
    /\ UNCHANGED <<heard, dispatched, uiCalls, exited, atExit>>
    /\ UNCHANGED <<sendVars, serverVars>>

\* What the process holds from the operating system and the runtime.
Held == [cm |-> CM, replies |-> replyTimers[Self], inbound |-> inbound,
         serverConnections |-> serverConnections]

\* ChatServer.stop(): ws.close() for every session in the map, clear the
\* map, stop listening.  A session the map does not hold is left alone.
serverStop(h) ==
    [h EXCEPT !.inbound =
                 [w \in DOMAIN @ |->
                     IF \E id \in DOMAIN h.serverConnections :
                            h.serverConnections[id] = w
                     THEN [@[w] EXCEPT !.readyState = "CLOSING"] ELSE @[w]],
              !.serverConnections = <<>>]

\* A process.exit that returns without ending the process.
processExit_returns(h) == h

\* process.exit(0): the process ends; its sockets are closed and its timers
\* are gone with it.
processExit(h) ==
    [cm |-> [h.cm EXCEPT !.sockets = <<>>, !.timers = <<>>,
                         !.connections = [p \in DOMAIN @ |-> NoEntry],
                         !.reconnectTimers = [p \in DOMAIN @ |-> NoEntry],
                         !.reconnectAttempts = [p \in DOMAIN @ |-> NoEntry]],
     replies |-> 0, inbound |-> <<>>, serverConnections |-> <<>>]

\* P2PChat.shutdown (the /quit command): discovery.stop(), server.stop(),
\* ui.stop(), process.exit(0).
Shutdown ==
    /\ running[Self]
    /\ ~exited
    /\ StopStep(Self)
    /\ LET h == processExit(serverStop(Held)) IN
          /\ Commit(h.cm)
          /\ replyTimers' = [replyTimers EXCEPT ![Self] = h.replies]
          /\ inbound' = h.inbound
          /\ serverConnections' = h.serverConnections
    /\ listener' = [listener EXCEPT !.server = NoEntry]
    /\ UNCHANGED <<occupied, received, port>>
    /\ exited' = TRUE
    /\ atExit' = [outbound |-> Cardinality(DOMAIN sockets),
                  reconnects |-> Cardinality(DOMAIN timers),
                  replies |-> replyTimers[Self],
                  inbound |-> Cardinality(DOMAIN inbound)]
    /\ UNCHANGED <<limits, rev, urlOk, connectCalls, disconnected>>
    /\ UNCHANGED <<chatPeers, heard, dispatched, uiCalls>>
    /\ UNCHANGED sendVars

\* The steps of the router's process and of its peer, while the router's
\* process is alive.
NextRouter ==
    \/ ~exited /\ \E i \in Procs : Start(i)
    \/ ~exited /\ \E d \in Datagrams : RouterDeliver(d)
    \/ ~exited /\ \E d \in Datagrams : d.to # Self /\ Deliver(d)
    \/ ~exited /\ \E d \in Datagrams : Drop(d)
    \/ ~exited /\ \E i \in Procs : AnnounceTimer(i)
    \/ ~exited /\ \E i \in Procs : ReplyTimer(i)
    \/ ~exited /\ RouterSweep
    \/ ~exited /\ \E i \in Procs \ {Self} : CleanupTimer(i)
    \/ ~exited /\ \E i \in Procs \ {Self} : Stop(i)
    \/ ~exited /\ Tick
    \/ ~exited /\ \E s \in AllHandles : WsOpen(s)
    \/ ~exited /\ \E s \in AllHandles : WsClose(s)
    \/ ~exited /\ \E t \in AllHandles : TimerFire(t)
    \/ ~exited /\ InboundOpen(myId(Self))
    \/ ~exited /\ \E w \in InboundHandles : InboundClose(w)
    \/ Shutdown

\* The router builds its ChatClient from src/client.ts; the peers of Self
\* have well-formed addresses.
InitRouter ==
    /\ InitSendVars
    /\ InitDiscovery
    /\ InitIdle
    /\ InitListening
    /\ limits = [peers |-> Procs \ {Self}, calls |-> MaxConnectCalls,
                 timers |-> RouterTimers, inbound |-> RouterInbound]
    /\ rev = "client"
    /\ urlOk = [p \in Peers |-> TRUE]
    /\ InitMaps

SpecRouter == InitRouter /\ [][NextRouter]_vars


LiveSockets(id) ==
    {s \in DOMAIN sockets : sockets[s].peer = id /\ sockets[s].readyState # "CLOSED"}

\* The reconnect timers pending for peer id.
PendingTimers(id) == {t \in DOMAIN timers : timers[t].peer = id}

\* C15: once peerLost(id) has removed id from the router's registry, the
\* ChatClient holds no session and no pending reconnect for id.
C15_LostPeerDisconnected ==
    \A id \in Peers :
        (lost[Self][id] > 0 /\ ~MapHas(chatPeers, id)) =>
            /\ connections[id] = NoEntry
            /\ LiveSockets(id) = {}
            /\ PendingTimers(id) = {}


\* C16: every peerFound the router's Discovery emits is handled in the same
\* step: the peer stands in the router's registry under its id, with the
\* record Discovery reported, and connect was called for it once.
C16_FoundIsRegisteredAndConnected ==
    [][\A id \in Peers :
          found'[Self][id] = found[Self][id] + 1 =>
              /\ \E k \in 1..Len(chatPeers') :
                    /\ chatPeers'[k].id = id
                    /\ chatPeers'[k] = registry'[Self][id]
              /\ connectCalls'[id] = connectCalls[id] + 1]_vars

\* Peer 2 was found once: it is registered and its socket exists.
C16_Witness ==
    /\ found[Self][2] = 1
    /\ MapHas(chatPeers, 2)
    /\ connectCalls[2] = 1
    /\ LiveSockets(2) # {}


\* C31: once a discovery event has been handled, the ids in the router's
\* peer registry are the ids in the private registry of its Discovery.
C31_RegistriesAgree == MapIds(chatPeers) = DOMAIN registry[Self]

\* Peer 2 was found and then lost: both registries are empty again.
C31_Witness ==
    /\ found[Self][2] = 1
    /\ lost[Self][2] = 1
    /\ chatPeers = <<>>


\* ------------------------------------------------------------------ Crypto
\* The public key host h advertises is <<"key", h>>; a key that is no point
\* of the curve is <<"key", 0>>.
BadKey == <<"key", 0>>
publicKey(h) == <<"key", h>>
ValidKey(key) == key # Absent /\ key[2] \in Ids

\* A secret that depends on which side computes it.
computeSecret_oneSided(h, key) == <<h, key[2]>>

\* ecdh.computeSecret(key): the secret the two key holders share.
computeSecret(h, key) == {h, key[2]}

\* The initialisation vectors randomBytes(16) can return.
IVs == {"iv1", "iv2"}

\* What AES-256-CBC makes of the text under the key and the iv: the hex
\* after the colon.  intact: the hex is as the cipher produced it.
Body(key, iv, text) == [key |-> key, iv |-> iv, text |-> text, intact |-> TRUE]

\* Crypto.encrypt of host h: the ciphertext iv:hex, or the Error it throws
\* when computeSecret rejects the recipient's key.
encrypt(h, message, recipientPublicKey, iv) ==
    IF ValidKey(recipientPublicKey)
    THEN [thrown |-> FALSE,
          value |-> <<"cipher", iv,
                      Body(computeSecret(h, recipientPublicKey), iv, message)>>]
    ELSE [thrown |-> TRUE, value |-> <<"error", "Failed to encrypt message">>]

\* A blob of the form iv:hex.
IsCiphertext(content) == Len(content) = 3 /\ content[1] = "cipher"

\* The result decrypt returns from its catch block.
Sentinel == <<"text", "[Unable to decrypt message]">>

\* What decipher.final returns when the key, the iv or the hex is not what the
\* cipher used and the last block still ends in valid padding: some other text.
Garbled == <<"text", "garbled">>

\* Crypto.decrypt of host h.  The catch block turns every error into the
\* sentinel: a blob without delimiter, iv or hex, an iv that is not 16 bytes,
\* a key computeSecret rejects, and a last block that does not end in valid
\* padding.  CBC has no integrity check: with another key, another iv or
\* altered hex the padding can still be valid (lucky), and then the garbled
\* text is returned as the result.
decrypt(h, encryptedMessage, senderPublicKey, lucky) ==
    IF ~IsCiphertext(encryptedMessage) \/ encryptedMessage[2] = "" THEN Sentinel
    ELSE IF ~ValidKey(senderPublicKey) THEN Sentinel
    ELSE IF encryptedMessage[2] \notin IVs THEN Sentinel
    ELSE LET body == encryptedMessage[3] IN
         IF /\ body.intact
            /\ body.key = computeSecret(h, senderPublicKey)
            /\ body.iv = encryptedMessage[2]
         THEN body.text
         ELSE IF lucky THEN Garbled ELSE Sentinel

\* ---------------------------------------------------------------- messages
\* The chat messages a peer h can put on a session.
Text == <<"text", "hi">>
ChatMessage(kind, h, to, content, key) ==
    [type |-> kind, from |-> <<"user", h>>, to |-> to, content |-> content,
     senderPublicKey |-> key]

\* A sender that is no string and still passes the listener's test, such as
\* the JSON object {"length": 1}.
OddSender == <<"object", "length">>

\* The direct messages peer h can send to Self: the text encrypted for Self,
\* the same with the iv replaced, with altered hex, without hex, encrypted for
\* another host, not encrypted at all, each with h's key, with an invalid key
\* or with none.
DirectFramesOf(h) ==
    LET c == encrypt(h, Text, publicKey(Self), "iv1").value
        contents == {c, <<"cipher", "iv2", c[3]>>,
                     <<"cipher", "iv1", [c[3] EXCEPT !.intact = FALSE]>>,
                     <<"cipher", "iv1">>,
                     encrypt(h, Text, publicKey(Outsider), "iv1").value,
                     Text}
    IN {Stringify(ChatMessage("dm", h, Self, content, key)) :
           content \in contents, key \in {publicKey(h), BadKey, Absent}}

\* A broadcast and a dm of peer h, a message without sender, one without kind,
\* and a frame that is no JSON.
FramesOf(h) ==
    {Stringify(m) : m \in
        {ChatMessage("broadcast", h, NoEntry, Text, Absent),
         ChatMessage("dm", h, Self, encrypt(h, Text, publicKey(Self), "iv1").value,
                     publicKey(h)),
         [ChatMessage("broadcast", h, NoEntry, Text, Absent) EXCEPT !.from = Absent],
         [ChatMessage("broadcast", h, NoEntry, Text, Absent) EXCEPT !.type = ""]}}
    \cup {<<"raw", "not json">>}
Frames == FramesOf(2)

\* Every frame of peer h: those, its other kinds of message, its direct
\* messages, messages with a sender that is no string, and the welcome of a
\* listener.
AllFramesOf(h) ==
    FramesOf(h) \cup DirectFramesOf(h)
    \cup {Stringify(m) : m \in
            {ChatMessage("typing", h, NoEntry, <<"text", "">>, Absent),
             ChatMessage("presence", h, NoEntry, <<"text", "joined">>, Absent),
             [ChatMessage("broadcast", h, NoEntry, Text, Absent)
                 EXCEPT !.from = OddSender],
             [ChatMessage("dm", h, Self,
                          encrypt(h, Text, publicKey(Self), "iv1").value,
                          publicKey(h)) EXCEPT !.from = OddSender],
             [ChatMessage("typing", h, NoEntry, <<"text", "">>, Absent)
                 EXCEPT !.from = OddSender],
             Welcome}}
AllFrames == AllFramesOf(2)

\* JSON.parse(frame): the message, or a SyntaxError.
ParseOk(frame) == frame[1] = "json"
Parse(frame) == frame[2]

\* A listener that tests the kind only.
WellFormed_kindOnly(msg) == msg.type # ""

\* A message the listener accepts: msg.type and msg.from are set.
WellFormed(msg) == msg.type # "" /\ msg.from # Absent

\* TerminalUI.getUserColor(username) calls username.charCodeAt for each index
\* below username.length: it raises for such a sender.
getUserColorRaises(username) == username = OddSender

\* The marker the router shows when it has no sender key.
DecryptionFailed == <<"text", "[Decryption Failed]">>

\* P2PChat.handleIncomingMessage: the UI call the message's kind selects (none
\* for a kind without a case), or the error that leaves it.  showMessage and
\* showDirectMessage colour the sender's name with getUserColor; for a dm the
\* catch block calls showDirectMessage again, outside any try.
handleIncomingMessage(msg, lucky) ==
    LET show(call) == IF getUserColorRaises(msg.from)
                      THEN [shown |-> <<"none">>, thrown |-> TRUE]
                      ELSE [shown |-> call, thrown |-> FALSE]
    IN CASE msg.type = "broadcast" -> show(<<"showMessage", msg.from, msg.content>>)
         [] msg.type = "dm" ->
               IF msg.senderPublicKey = Absent
               THEN show(<<"showDirectMessage", msg.from, DecryptionFailed>>)
               ELSE show(<<"showDirectMessage", msg.from,
                           decrypt(Self, msg.content, msg.senderPublicKey, lucky)>>)
         [] msg.type = "typing" ->
               [shown |-> <<"showTypingIndicator", msg.from>>, thrown |-> FALSE]
         [] msg.type = "presence" ->
               [shown |-> <<"showNotification", msg.from, msg.content>>,
                thrown |-> FALSE]
         [] OTHER -> [shown |-> <<"none">>, thrown |-> FALSE]

\* The listeners of the ChatClient's 'message' event: P2PChat registers none.
onClientMessage(msg) == UNCHANGED dispatched

\* server.on('message'): handleIncomingMessage(msg).
onServerMessage(msg, lucky) ==
    dispatched' = Append(dispatched,
                         [msg |-> msg] @@ handleIncomingMessage(msg, lucky))

\* The frames that have arrived in this run.
FramesHeard == Len(heard.outbound) + Len(received)

\* ws.onmessage of the outbound session s: JSON.parse, then emit('message').
ClientMessage(s, frame) ==
    /\ s \in DOMAIN sockets
    /\ sockets[s].readyState \in {"OPEN", "CLOSING"}
    /\ FramesHeard < MaxFrames
    /\ IF ParseOk(frame)
       THEN /\ heard' = [heard EXCEPT !.outbound = Append(@, Parse(frame))]
            /\ onClientMessage(Parse(frame))
       ELSE UNCHANGED <<heard, dispatched>>
    /\ UNCHANGED <<chatPeers, uiCalls, exited, atExit>>
    /\ UNCHANGED <<cmVars, sendVars, discVars, serverVars>>

\* A listener that relays a dm to every session it has.
forwardTo_all(msg) ==
    IF msg.type = "dm" /\ msg.to # NoEntry THEN DOMAIN inbound ELSE {}

\* The sessions ChatServer.handleMessage forwards msg to: for a dm with a
\* recipient, the session filed under msg.to if it is open.
forwardTo(msg) ==
    IF msg.type = "dm" /\ msg.to # NoEntry /\ serverIsConnected(msg.to)
    THEN {serverConnections[msg.to]}
    ELSE {}

\* ChatServer.handleMessage on the inbound session w: parse, validate,
\* emit('message'), and for a dm forward to the session filed under msg.to.
\* An error the 'message' listener raises lands in the catch block, before the
\* forward.
ServerMessage(w, frame, lucky) ==
    /\ w \in DOMAIN inbound
    /\ FramesHeard < MaxFrames
    /\ received' = Append(received, [session |-> w, frame |-> frame])
    /\ IF ParseOk(frame) /\ WellFormed(Parse(frame))
       THEN LET msg == Parse(frame)
                targets == IF handleIncomingMessage(msg, lucky).thrown
                           THEN {}
                           ELSE forwardTo(msg)
            IN /\ heard' = [heard EXCEPT !.inbound = Append(@, msg)]
               /\ onServerMessage(msg, lucky)
               /\ inbound' = [x \in DOMAIN inbound |->
                                IF x \in targets
                                THEN [inbound[x] EXCEPT
                                         !.out = Append(@, Stringify(msg))]
                                ELSE inbound[x]]
       ELSE UNCHANGED <<heard, dispatched, inbound>>
    /\ UNCHANGED <<chatPeers, uiCalls, exited, atExit, serverConnections>>
    /\ UNCHANGED <<listener, occupied, port>>
    /\ UNCHANGED <<cmVars, sendVars, discVars>>

\* The listener with the sessions its peers open, and the router's own
\* outbound sessions, one to each peer.
NextServer ==
    \/ \E param \in {myId(Self), NoParam} : InboundOpen(param)
    \/ \E w \in InboundHandles : InboundClose(w)
    \/ \E s \in AllHandles, frame \in Frames : ClientMessage(s, frame)
    \/ \E w \in InboundHandles, frame \in Frames, lucky \in BOOLEAN :
          ServerMessage(w, frame, lucky)

InitServer ==
    /\ InitSendVars
    /\ InitDiscovery
    /\ InitIdle
    /\ InitListening
    /\ limits = [peers |-> {}, calls |-> 0, timers |-> 0, inbound |-> MaxInbound]
    /\ rev = "client"
    /\ InitSessions({[p \in Known |-> IF p = Self THEN "none" ELSE "OPEN"]})

SpecServer == InitServer /\ [][NextServer]_vars

\* How often m stands in the sequence q.
Count(q, m) == Cardinality({k \in 1..Len(q) : q[k] = m})

\* C17: every well-formed message heard on an outbound session was handed to
\* the router's dispatch by kind, as every one heard on an inbound session is.
C17_OutboundIsDispatched ==
    \A m \in {Parse(f) : f \in {g \in Frames : ParseOk(g)}} :
        WellFormed(m) =>
            Count([k \in 1..Len(dispatched) |-> dispatched[k].msg], m)
                = Count(heard.outbound, m) + Count(heard.inbound, m)


\* C19: the connection count the status probe reports is the number of
\* inbound sessions that are open, whatever ids their handshakes presented.
C19_HealthCountsSessions == health = Cardinality(DOMAIN inbound)


\* The payload parses and the parsed message has a kind and a sender.
HasKindAndSender(frame) ==
    /\ frame[1] = "json"
    /\ frame[2].type # ""
    /\ frame[2].from # <<>>

\* The payload that arrived in this step.
Arrived == received'[Len(received')].frame

\* C27: the listener emits exactly one message event for each payload that
\* parses and has a kind and a sender, in the order of arrival; a payload that
\* does not parse, or lacks kind or sender, gives no event and is forwarded to
\* no session.
C27_OneEventPerPayload ==
    [][IF Len(received') = Len(received) + 1
       THEN IF HasKindAndSender(Arrived)
            THEN heard'.inbound = Append(heard.inbound, Arrived[2])
            ELSE heard'.inbound = heard.inbound /\ inbound' = inbound
       ELSE heard'.inbound = heard.inbound]_vars

C27_Witness ==
    /\ Len(received) = 2
    /\ ~HasKindAndSender(received[1].frame)
    /\ HasKindAndSender(received[2].frame)
    /\ heard.inbound = <<received[2].frame[2]>>


\* The sessions whose send queue got a payload in this step.
Relayed == {w \in DOMAIN inbound : inbound'[w].out # inbound[w].out}

\* The session filed under the recipient of the dm that arrived, if it is
\* open; none for another kind, and for a recipient without a session.
Recipient ==
    LET f == Arrived IN
    IF /\ HasKindAndSender(f)
       /\ f[2].type = "dm"
       /\ f[2].to \in DOMAIN serverConnections
       /\ inbound[serverConnections[f[2].to]].readyState = "OPEN"
    THEN {serverConnections[f[2].to]}
    ELSE {}

\* C28: the listener relays only a dm whose recipient id has an open session
\* in its map, and to that one session only (when the message event was
\* handled without an error, it does relay it there); a message of another
\* kind, and a dm for an id without a session, is relayed to no session.
C28_RelayOnlyToRecipient ==
    [][Len(received') = Len(received) + 1 =>
          /\ DOMAIN inbound' = DOMAIN inbound
          /\ Relayed \subseteq Recipient
          /\ \A w \in Relayed : inbound'[w].out = Append(inbound[w].out, Arrived)
          /\ (HasKindAndSender(Arrived) /\ ~dispatched'[Len(dispatched')].thrown)
                => Relayed = Recipient]_vars

\* Two sessions are open and a dm for the id of one of them has arrived on
\* the other: it went to the recipient's session alone.
C28_Witness ==
    /\ Len(received) >= 1
    /\ Cardinality(DOMAIN inbound) = 2
    /\ LET r == received[Len(received)] IN
          /\ HasKindAndSender(r.frame)
          /\ r.frame[2].type = "dm"
          /\ r.frame[2].to \in DOMAIN serverConnections
          /\ serverConnections[r.frame[2].to] # r.session
          /\ inbound[serverConnections[r.frame[2].to]].out
                = <<Stringify(Welcome), r.frame>>
          /\ inbound[r.session].out = <<Stringify(Welcome)>>


\* C29: while an inbound session that presented the id P is open, the map
\* has an entry for P that refers to an open session (isConnected(P)), also
\* when another session with the same id was opened or closed meanwhile.
C29_OpenSessionIsConnected ==
    \A w \in DOMAIN inbound :
        inbound[w].readyState = "OPEN" => serverIsConnected(inbound[w].peerId)


\* ------------------------------------------------------------------- bind
\* await this.server.start() of startServices, on a host where the ports of
\* `occupied` are taken; Bun.serve fails otherwise on the port `denied`.
ServerStart(denied) ==
    /\ listener.result = "none"
    /\ listener' = start(listener, occupied, denied)
    /\ UNCHANGED <<inbound, serverConnections, occupied, received, port>>
    /\ UNCHANGED <<cmVars, sendVars, discVars, routerVars>>

\* The rest of startServices, once start() has returned: the port of the
\* listener is read and handed to the Discovery that announces it.
startDiscovery(l) == getPort(l)

StartDiscovery ==
    /\ listener.result = "returned"
    /\ port = NoEntry
    /\ port' = startDiscovery(listener)
    /\ UNCHANGED <<inbound, serverConnections, listener, occupied, received>>
    /\ UNCHANGED <<cmVars, sendVars, discVars, routerVars>>

NextBind ==
    \/ \E denied \in Window \cup {NoEntry} : ServerStart(denied)
    \/ StartDiscovery

InitBind ==
    /\ InitSendVars
    /\ InitDiscovery
    /\ InitIdle
    /\ limits = [peers |-> {}, calls |-> 0, timers |-> 0, inbound |-> 0]
    /\ rev = "client"
    /\ urlOk = [p \in Peers |-> TRUE]
    /\ InitMaps
    /\ occupied \in SUBSET Window
    /\ listener = Constructed
    /\ port = NoEntry

SpecBind == InitBind /\ [][NextBind]_vars

\* C18: start() tries the preferred port and then the next ones, one more
\* for each occupied port it hit and at most 10 of them; when every attempt
\* hit an occupied port it ends with an error and does not return.
C18_BindRetriesThenFails ==
    listener.result # "none" =>
        /\ listener.attempts <= maxAttempts
        /\ listener.port = PreferredPort + listener.attempts
        /\ \A q \in PreferredPort..(listener.port - 1) : q \in occupied
        /\ listener.attempts = maxAttempts => listener.result = "threw"
        /\ listener.result = "returned" => listener.server = listener.port


\* C30: the port the process advertises is one its listener is bound on:
\* the preferred port plus the number of conflicts start() hit; Discovery
\* never advertises a port when no bind succeeded.
C30_AdvertisedPortIsBound ==
    port # NoEntry =>
        /\ listener.server = port
        /\ port = PreferredPort + listener.attempts


\* ------------------------------------------------------------ direct message
\* What the router's registry can hold about the peers 2 and 3: each under
\* its id, with the username and the public key its datagrams advertised.
Usernames == {<<"user", 2>>, <<"user", 3>>}
PeerRecord(id, name, key) ==
    [id |-> id, username |-> name, ip |-> <<"ip", id>>, port |-> 3000 + id,
     publicKey |-> key, lastSeen |-> 0]
Registries ==
    LET Entries(id) == {PeerRecord(id, name, key) :
                           name \in Usernames, key \in {publicKey(id), BadKey}}
    IN {<<>>}
       \cup {<<e>> : e \in Entries(2) \cup Entries(3)}
       \cup {<<e, g>> : e \in Entries(2), g \in Entries(3)}
       \cup {<<g, e>> : e \in Entries(2), g \in Entries(3)}

\* The registry's peers named targetUsername, in the Map's order.
Matches(targetUsername) ==
    SelectSeq(chatPeers, LAMBDA p : p.username = targetUsername)

\* A lookup that takes the last peer of that name.
find_last(targetUsername) ==
    Matches(targetUsername)[Len(Matches(targetUsername))]

\* Array.from(this.peers.values()).find(p => p.username === targetUsername),
\* when a peer has that name.
find(targetUsername) == Matches(targetUsername)[1]

\* The dm the router builds for peer.
DirectMessage(peer, encrypted) ==
    [type |-> "dm", from |-> <<"user", Self>>, to |-> peer.id,
     content |-> encrypted, senderPublicKey |-> publicKey(Self)]

\* P2PChat.sendDirectMessage: what goes out, what is logged or thrown, and
\* what the UI shows.
sendDirectMessage(targetUsername, content, iv, failing) ==
    IF Matches(targetUsername) = <<>>
    THEN [out |-> NoOutput,
          ui |-> <<<<"showError", "User not found", targetUsername>>>>]
    ELSE LET peer == find(targetUsername)
             enc == encrypt(Self, content, peer.publicKey, iv)
         IN IF enc.thrown
            THEN [out |-> [NoOutput EXCEPT
                              !.logged = <<<<"error", "Encryption failed">>>>,
                              !.thrown = TRUE],
                  ui |-> <<>>]
            ELSE [out |-> sendTo(peer.id, DirectMessage(peer, enc.value), failing),
                  ui |-> <<<<"showDirectMessage", "you", content, targetUsername>>>>]

\* The /dm command with a target and a text.
SendDirect(targetUsername, content, iv, failing) ==
    LET r == sendDirectMessage(targetUsername, content, iv, failing) IN
    /\ lastCall' = [op |-> "sendDirect", target |-> targetUsername,
                    content |-> content, iv |-> iv, failing |-> failing]
    /\ sent' = r.out.sent
    /\ logged' = r.out.logged
    /\ raised' = r.out.thrown
    /\ returned' = <<>>
    /\ uiCalls' = r.ui
    /\ UNCHANGED <<chatPeers, heard, dispatched, exited, atExit>>
    /\ UNCHANGED <<cmVars, discVars, serverVars>>

NextDirect ==
    \E name \in Usernames, iv \in IVs, f \in SUBSET DOMAIN sockets :
        SendDirect(name, Text, iv, f)

\* The router with the peers its registry holds and the sessions its
\* ChatClient has to them.
InitDirect ==
    /\ InitSendVars
    /\ InitDiscovery
    /\ InitListening
    /\ chatPeers \in Registries
    /\ heard = [outbound |-> <<>>, inbound |-> <<>>]
    /\ dispatched = <<>>
    /\ uiCalls = <<>>
    /\ exited = FALSE
    /\ atExit = [outbound |-> 0, reconnects |-> 0, replies |-> 0, inbound |-> 0]
    /\ inbound = <<>>
    /\ serverConnections = <<>>
    /\ received = <<>>
    /\ limits = [peers |-> {}, calls |-> 0, timers |-> 0, inbound |-> 0]
    /\ rev = "client"
    /\ InitSessions({f \in [Known -> SessionStates] : f[Self] = "none"})

SpecDirect == InitDirect /\ [][NextDirect]_vars


\* The places of the registry's peers named t, and the first of those peers.
Named(t) == {k \in 1..Len(chatPeers) : chatPeers[k].username = t}
FirstNamed(t) == chatPeers[Min(Named(t))]

\* The step is a sendDirect that found no peer of the name: nothing is sent,
\* the registry and the sessions stay, the UI shows an error, nothing is
\* raised.
NotFoundIsSurfaced ==
    /\ sent' = <<>>
    /\ UNCHANGED <<chatPeers, cmVars>>
    /\ \E k \in 1..Len(uiCalls') : uiCalls'[k][1] = "showError"
    /\ ~raised'

\* The frame is a dm for peer whose content is a ciphertext of the text that
\* the holder of peer's key can read.
IsDirectFor(frame, peer, plaintext) ==
    /\ ParseOk(frame)
    /\ Parse(frame).type = "dm"
    /\ Parse(frame).to = peer.id
    /\ IsCiphertext(Parse(frame).content)
    /\ Parse(frame).content # plaintext
    /\ \A lucky \in BOOLEAN :
          decrypt(peer.publicKey[2], Parse(frame).content,
                  Parse(frame).senderPublicKey, lucky) = plaintext

\* C20 as stated: a sendDirect naming no registry peer sends nothing, changes
\* nothing and shows a non-fatal error; any other sendDirect sends exactly
\* one dm, its content the ciphertext, on the session of the first registry
\* peer of that name and on no other.
C20_SendDirectExactlyOne ==
    [][lastCall'.op = "sendDirect" =>
          IF Named(lastCall'.target) = {} THEN NotFoundIsSurfaced
          ELSE LET peer == FirstNamed(lastCall'.target) IN
               /\ Len(sent') = 1
               /\ sent'[1][1] = connections[peer.id]
               /\ IsDirectFor(sent'[1][2], peer, lastCall'.content)]_vars

\* C20 as the code has it: a sendDirect naming no registry peer sends nothing,
\* changes nothing and shows a non-fatal error.  Otherwise the first registry
\* peer of that name is the only target and the registry and the sessions
\* stay: when that peer advertised an invalid public key the call raises and
\* sends nothing; when its session is open and the send goes through, exactly
\* one dm goes out on that session, its content the ciphertext; when it has
\* no open session or the send fails, nothing goes out and the failure is
\* logged, without an error in the UI.
C20_SendDirectAtMostOne ==
    [][lastCall'.op = "sendDirect" =>
          IF Named(lastCall'.target) = {} THEN NotFoundIsSurfaced
          ELSE LET peer == FirstNamed(lastCall'.target)
                   ws == connections[peer.id]
               IN /\ UNCHANGED <<chatPeers, cmVars>>
                  /\ \A k \in 1..Len(sent') : sent'[k][1] = ws
                  /\ IF ~ValidKey(peer.publicKey)
                     THEN raised' /\ sent' = <<>>
                     ELSE /\ ~raised'
                          /\ \A k \in 1..Len(uiCalls') : uiCalls'[k][1] # "showError"
                          /\ IF IsOpen(ws) /\ ws \notin lastCall'.failing
                             THEN /\ Len(sent') = 1
                                  /\ IsDirectFor(sent'[1][2], peer, lastCall'.content)
                             ELSE /\ sent' = <<>>
                                  /\ Len(logged') = 1]_vars

\* Two registry peers have the target's name, with sessions of their own, and
\* one dm went out.
C20_Witness ==
    /\ lastCall.op = "sendDirect"
    /\ Cardinality(Named(lastCall.target)) = 2
    /\ IsOpen(connections[2]) /\ IsOpen(connections[3])
    /\ Len(sent) = 1


\* ------------------------------------------------------- the Crypto engine
\* The texts, the keys a caller can pass, and the blobs decrypt can be handed:
\* every ciphertext an engine produces, such a ciphertext with another iv in
\* front, with altered hex, without hex, without iv or with an iv of another
\* length, and a text without delimiter.
Plaintexts == {<<"text", "hi">>, <<"text", "">>, <<"text", "a:b">>}
Keys == {publicKey(h) : h \in Ids} \cup {BadKey, Absent}
Ciphertexts ==
    {encrypt(a, text, publicKey(b), iv).value :
        a \in Ids, b \in Ids, text \in Plaintexts, iv \in IVs}
OtherIv(c) == {<<"cipher", iv, c[3]>> : iv \in IVs \ {c[2]}}
Corrupted(c) == <<"cipher", c[2], [c[3] EXCEPT !.intact = FALSE]>>
Truncated(c) == {<<"cipher", c[2]>>, <<"cipher", "", c[3]>>, <<"cipher", "0f", c[3]>>}
Altered ==
    UNION {OtherIv(c) \cup {Corrupted(c)} \cup Truncated(c) :
              c \in {encrypt(2, text, publicKey(1), iv).value :
                        text \in Plaintexts, iv \in IVs}}
Blobs == Ciphertexts \cup Altered \cup {<<"text", "no delimiter">>}

\* engine.encrypt(text, recipientPublicKey).
Encrypt(h, text, key, iv) ==
    LET r == encrypt(h, text, key, iv) IN
    /\ lastCall' = [op |-> "encrypt", engine |-> h, text |-> text, key |-> key,
                    iv |-> iv]
    /\ returned' = IF r.thrown THEN <<>> ELSE r.value
    /\ raised' = r.thrown
    /\ logged' = IF r.thrown THEN <<<<"error", "Encryption failed">>>> ELSE <<>>
    /\ UNCHANGED sent
    /\ UNCHANGED <<cmVars, discVars, routerVars, serverVars>>

\* engine.decrypt(blob, senderPublicKey).
Decrypt(h, blob, key, lucky) ==
    /\ lastCall' = [op |-> "decrypt", engine |-> h, blob |-> blob, key |-> key]
    /\ returned' = decrypt(h, blob, key, lucky)
    /\ raised' = FALSE
    /\ logged' = IF returned' = Sentinel
                 THEN <<<<"error", "Decryption failed">>>> ELSE <<>>
    /\ UNCHANGED sent
    /\ UNCHANGED <<cmVars, discVars, routerVars, serverVars>>

NextCrypto ==
    \/ \E h \in Ids, text \in Plaintexts, key \in Keys \ {Absent}, iv \in IVs :
          Encrypt(h, text, key, iv)
    \/ \E h \in Ids, blob \in Blobs, key \in Keys, lucky \in BOOLEAN :
          Decrypt(h, blob, key, lucky)

InitCrypto ==
    /\ InitSendVars
    /\ InitDiscovery
    /\ InitIdle
    /\ InitListening
    /\ limits = [peers |-> {}, calls |-> 0, timers |-> 0, inbound |-> 0]
    /\ rev = "client"
    /\ urlOk = [p \in Peers |-> TRUE]
    /\ InitMaps

SpecCrypto == InitCrypto /\ [][NextCrypto]_vars

\* The last call was B.decrypt(A.encrypt(text, B.publicKey), A.publicKey).
RoundTrips(text) ==
    /\ lastCall.op = "decrypt"
    /\ \E a \in Ids, iv \in IVs :
          /\ lastCall.blob = encrypt(a, text, publicKey(lastCall.engine), iv).value
          /\ lastCall.key = publicKey(a)

Genuine ==
    /\ IsCiphertext(lastCall.blob)
    /\ lastCall.blob[2] \in IVs
    /\ ValidKey(lastCall.key)
    /\ lastCall.blob[3].intact
    /\ lastCall.blob[3].iv = lastCall.blob[2]
    /\ lastCall.blob[3].key = {lastCall.engine, lastCall.key[2]}

\* C23: decrypt raises for no blob and no sender key, and for every blob that
\* lacks the delimiter, the iv or the ciphertext, every unrelated or invalid
\* key and every corrupted ciphertext its result is the failure sentinel.
C23_DecryptFailsToSentinel ==
    lastCall.op = "decrypt" =>
        /\ ~raised
        /\ ~Genuine => returned = Sentinel


\* ------------------------------------------------- inbound messages of a peer
\* The router and its listener with the session of peer 2 accepted, and
\* every frame peer 2 can put on it.
NextInbound ==
    \E w \in InboundHandles, frame \in AllFrames, lucky \in BOOLEAN :
        ServerMessage(w, frame, lucky)

InitInbound ==
    /\ InitSendVars
    /\ InitDiscovery
    /\ InitListening
    /\ chatPeers = <<>>
    /\ heard = [outbound |-> <<>>, inbound |-> <<>>]
    /\ dispatched = <<>>
    /\ uiCalls = <<>>
    /\ exited = FALSE
    /\ atExit = [outbound |-> 0, reconnects |-> 0, replies |-> 0, inbound |-> 0]
    /\ inbound = Put(<<>>, 1, [peerId |-> peerIdOf(myId(Self)),
                               readyState |-> "OPEN",
                               out |-> <<Stringify(Welcome)>>])
    /\ serverConnections = handleOpen(<<>>, 1, peerIdOf(myId(Self)))
    /\ received = <<>>
    /\ limits = [peers |-> {}, calls |-> 0, timers |-> 0, inbound |-> 0]
    /\ rev = "client"
    /\ InitSessions({[p \in Known |-> IF p = Self THEN "none" ELSE "OPEN"]})

SpecInbound == InitInbound /\ [][NextInbound]_vars

\* The blob is what the holder of key encrypted for engine h, unaltered.
GenuineFor(h, blob, key) ==
    /\ IsCiphertext(blob)
    /\ blob[2] \in IVs
    /\ ValidKey(key)
    /\ blob[3].intact
    /\ blob[3].iv = blob[2]
    /\ blob[3].key = {h, key[2]}

\* C21: for every inbound dm the router shows the decrypted text when the
\* sender key is there and the content is what its holder encrypted for this
\* process, and a decryption-failure marker otherwise (no sender key, bad
\* format, wrong key, corrupted ciphertext); handling a message of any kind
\* raises nothing.
C21_DirectShownOrMarked ==
    \A k \in 1..Len(dispatched) :
        LET e == dispatched[k] IN
        /\ ~e.thrown
        /\ e.msg.type = "dm" =>
              /\ e.shown[1] = "showDirectMessage"
              /\ IF GenuineFor(Self, e.msg.content, e.msg.senderPublicKey)
                 THEN e.shown[3] = e.msg.content[3].text
                 ELSE e.shown[3] \in {DecryptionFailed, Sentinel}


\* C24: no user command ends the process through an uncaught error; in
\* particular a sendDirect to a peer whose advertised public key is not a
\* valid key raises nothing.
C24_SendDirectNeverRaises ==
    lastCall.op = "sendDirect" => ~raised


\* ------------------------------------------------- malformed datagrams
\* The payloads the host that is not modelled can send besides the
\* well-formed ones: bytes that are no JSON, and an announce and a query
\* without an id.
Malformed ==
    {<<"raw", "not json">>}
       \cup {Stringify(ForeignMessage(kind, NoEntry)) : kind \in Kinds}

\* Such a payload reaches the socket of process j: Discovery.handleMessage.
\* JSON.parse raises inside the try block for the first; the others parse.
DeliverMalformed(payload, j) ==
    /\ foreign < MaxForeign
    /\ running[j]
    /\ foreign' = foreign + 1
    /\ IF ParseOk(payload)
       THEN handleMessage(j, Parse(payload))
       ELSE UNCHANGED <<registry, found, replyTimers>>
    /\ UNCHANGED <<now, running, nextAnnounce, nextCleanup, net, lost,
                   ownHeard, stopped, sendErrors>>
    /\ UNCHANGED nonDisc

NextMalformed ==
    \/ NextDelivered
    \/ \E payload \in Malformed, j \in Procs : DeliverMalformed(payload, j)

SpecMalformed == InitDisc /\ [][NextMalformed]_vars

\* A malformed datagram was handled in this step.
MalformedHandled == foreign' = foreign + 1 /\ net' = net

\* C26: a malformed discovery datagram (one that does not parse, or parses
\* and has no id) leaves the registry as it is and emits no peer-found.
C26_MalformedIsIgnored ==
    [][MalformedHandled => registry' = registry /\ found' = found]_vars

====
